---- MODULE Spec2Model ----
(***************************************************************************)
(* Model of src/src/lib.rs (crate dyn_struct): DynStruct<T, D>, a          *)
(* #[repr(C)] header `single: T` followed by a trailing `many: [D]`.       *)
(*                                                                         *)
(* Memory is a map from byte addresses to bytes.  The bytes of the         *)
(* caller's values are symbolic and pairwise distinct (<<tag, k, i>> is    *)
(* byte i of element k), so a byte that ends up at a wrong offset is       *)
(* always visible when it is read back.                                    *)
(*                                                                         *)
(* A type parameter is the pair (size_of, align_of) the code asks for.     *)
(* isize::MAX, the largest size a Layout accepts, is scaled down to        *)
(* 2^(UsizeBits-1) - 1 so that the sizes that overflow it are within the   *)
(* bounds; addresses are not reduced modulo the word.                      *)
(***************************************************************************)
EXTENDS Integers, Sequences, FiniteSets

\* ---------------------------------------------------------------- bounds
MaxSize == 4
MaxLen == 4
MaxAddr == 8
UsizeBits == 4

Aligns == {1, 2, 4}

ISIZE_MAX == 2^(UsizeBits - 1) - 1

\* Sized types: size_of is a multiple of align_of and fits in isize.
Types ==
    {ty \in [size : 0..MaxSize, align : Aligns] :
        ty.size % ty.align = 0 /\ ty.size <= ISIZE_MAX}

\* Where the heap starts: above every address the caller's slice can cover,
\* and a multiple of every alignment.
HeapBase == 4 * (MaxAddr + ISIZE_MAX + 1)

\* ------------------------------------------------------------ byte values
Uninit == <<"uninit", 0, 0>>
Clobbered == <<"clobbered", 0, 0>>

\* The bytes of the header value the caller passes by value.
SingleBytes(T) == [i \in 1..T.size |-> <<"single", 0, i>>]

\* The bytes of element k of the caller's slice.
ElemBytes(D, k) == [i \in 1..D.size |-> <<"many", k, i>>]

\* ------------------------------------------------------------------ state
VARIABLES
    pc,           \* "idle", "owned", "view", "released", "panicked", "aborted"
    tyT, tyD,     \* the type parameters T and D of the call
    many,         \* the caller's slice &[D]: [ptr, len]
    mem,          \* memory: address -> byte
    handle,       \* the Box<Self> / &Self returned: [kind, ptr, len, T, D]
    heap,         \* blocks the allocator has handed out: [ptr, size, align]
    allocCalls,   \* layouts passed to std::alloc::alloc
    deallocCalls, \* (ptr, layout) passed to dealloc when the Box is dropped
    written,      \* addresses stored to by the two copy_from_nonoverlapping
    copied,       \* element counts passed to the copy of `many`
    fault,        \* "none", "layout_error", "alloc_error", "empty_values"
    obs           \* what was read through the handle: <<[header, trailing]>>

vars == <<pc, tyT, tyD, many, mem, handle, heap, allocCalls, deallocCalls,
          written, copied, fault, obs>>

ZeroSized == [size |-> 0, align |-> 1]

NoHandle == [kind |-> "none", ptr |-> 0, len |-> 0, T |-> ZeroSized, D |-> ZeroSized]

\* --------------------------------------------------------- pure functions
size_of(ty) == ty.size

align_of(ty) == ty.align

usize_max(a, b) == IF a >= b THEN a ELSE b

\* pointer::align_offset for a byte pointer: bytes to the next multiple.
align_offset(addr, align) == (align - (addr % align)) % align

\* total_size without the header: size_of::<D>() * many.len().
total_size_no_header(T, D, len) == size_of(D) * len

\* let total_size = size_of::<T>() + size_of::<D>() * many.len();
total_size(T, D, len) == size_of(T) + size_of(D) * len

\* if total_size == 0
is_zero_size(total) == total = 0

\* let align = usize::max(align_of::<T>(), align_of::<D>());
new_align(T, D) == usize_max(align_of(T), align_of(D))

\* Layout::from_size_align: an error when the size, rounded up to the
\* alignment, overflows isize.
LayoutError == [size |-> 0, align |-> 0]

\* The size compared with isize::MAX as it is, not rounded up to the alignment.
Layout_from_size_align_unrounded(size, align) ==
    IF size > ISIZE_MAX
    THEN LayoutError
    ELSE [size |-> size, align |-> align]

Layout_from_size_align(size, align) ==
    IF size > ISIZE_MAX - (align - 1)
    THEN LayoutError
    ELSE [size |-> size, align |-> align]

single_ptr(raw) == raw

many_ptr(raw, T, D) ==
    LET naive == raw + size_of(T)
        align == align_of(D)
    IN  naive + align_offset(naive, align)

\* &ARBITRARY[..0]: an empty slice whatever len is.
slice_with_len_empty(len) == 0

\* &ARBITRARY[..len]: the length of the range 0..len of the static array.
slice_with_len(len) == len - 0

\* std::slice::from_raw_parts_mut(raw as *mut (), many.len())
from_raw_parts_len(len) == len

\* from_slice without its assert.
values_unchecked(values) == TRUE

\* assert!(!values.is_empty(), ...)
values_nonempty(values) == values.len /= 0

\* &values[..]: the whole slice taken as the trailing sequence.
from_slice_len_whole(values) == values.len

\* &values[..values.len() - 1]
from_slice_len(values) == values.len - 1

\* #[repr(C)] struct DynStruct<T, D> { single: T, many: [D] }: the offset of
\* `many` is the end of `single` rounded up to align_of::<D>().
round_up(n, align) == ((n + align - 1) \div align) * align

offset_of_many(T, D) == round_up(size_of(T), align_of(D))

align_of_val(T, D) == usize_max(align_of(T), align_of(D))

size_of_val(T, D, len) ==
    round_up(offset_of_many(T, D) + size_of(D) * len, align_of_val(T, D))

\* ------------------------------------------------------ reading a handle
Load(m, a) == IF a \in DOMAIN m THEN m[a] ELSE Uninit

ReadSingle(m, h) == [i \in 1..size_of(h.T) |-> Load(m, h.ptr + (i - 1))]

ReadMany(m, h) ==
    [k \in 1..h.len |->
        [i \in 1..size_of(h.D) |->
            Load(m, h.ptr + offset_of_many(h.T, h.D)
                      + (k - 1) * size_of(h.D) + (i - 1))]]

\* ------------------------------------------------------------------- Init
AlignedAddrs(align) == {a \in 1..MaxAddr : a % align = 0}

SliceMem(D, ptr, len) ==
    [a \in {ptr + j : j \in 0..(size_of(D) * len - 1)} |->
        ElemBytes(D, ((a - ptr) \div size_of(D)) + 1)[((a - ptr) % size_of(D)) + 1]]

Init ==
    /\ pc = "idle"
    /\ tyT \in Types
    /\ tyD \in Types
    /\ \E len \in 0..MaxLen, ptr \in AlignedAddrs(align_of(tyD)) :
          /\ size_of(tyD) * len <= ISIZE_MAX
          /\ many = [ptr |-> ptr, len |-> len]
          /\ mem = SliceMem(tyD, ptr, len)
    /\ handle = NoHandle
    /\ heap = {}
    /\ allocCalls = <<>>
    /\ deallocCalls = <<>>
    /\ written = {}
    /\ copied = <<>>
    /\ fault = "none"
    /\ obs = <<>>

\* ------------------------------------------------------- DynStruct::new
\* The stores of the two copies: address -> byte stored there.
SingleStores(raw, T) ==
    [a \in {single_ptr(raw) + j : j \in 0..(size_of(T) - 1)} |->
        SingleBytes(T)[(a - single_ptr(raw)) + 1]]

ManyStores(raw, T, D, len) ==
    [a \in {many_ptr(raw, T, D) + j : j \in 0..(size_of(D) * len - 1)} |->
        ElemBytes(D, ((a - many_ptr(raw, T, D)) \div size_of(D)) + 1)
                 [((a - many_ptr(raw, T, D)) % size_of(D)) + 1]]

BlockAddrs(b) == {b.ptr + j : j \in 0..(b.size - 1)}

\* What alloc may return for a layout: a block of the heap at a multiple of
\* the alignment.
AllocAddrs(layout) == {HeapBase + a : a \in {x \in 0..MaxAddr : x % layout.align = 0}}

\* total_size == 0: the fat pointer of a Box<[()]> of many.len() units, cast
\* to *mut Self.  A Box of zero-sized units holds a dangling pointer that is
\* non-null and aligned for (), nothing more.
new_zero_size ==
    /\ pc = "idle"
    /\ is_zero_size(total_size(tyT, tyD, many.len))
    /\ \E p \in 1..MaxAddr :
          handle' = [kind |-> "box", ptr |-> p, len |-> slice_with_len(many.len),
                     T |-> tyT, D |-> tyD]
    /\ pc' = "owned"
    /\ UNCHANGED <<tyT, tyD, many, mem, heap, allocCalls, deallocCalls,
                   written, copied, fault, obs>>

\* Layout::from_size_align(total_size, align).unwrap() on an Err: panic.
new_layout_error ==
    /\ pc = "idle"
    /\ ~is_zero_size(total_size(tyT, tyD, many.len))
    /\ Layout_from_size_align(total_size(tyT, tyD, many.len), new_align(tyT, tyD))
          = LayoutError
    /\ pc' = "panicked"
    /\ fault' = "layout_error"
    /\ UNCHANGED <<tyT, tyD, many, mem, handle, heap, allocCalls, deallocCalls,
                   written, copied, obs>>

\* raw.is_null(): handle_alloc_error(layout) ends the process.
new_alloc_null ==
    /\ pc = "idle"
    /\ ~is_zero_size(total_size(tyT, tyD, many.len))
    /\ LET layout == Layout_from_size_align(total_size(tyT, tyD, many.len),
                                            new_align(tyT, tyD))
       IN  /\ layout /= LayoutError
           /\ allocCalls' = Append(allocCalls, layout)
    /\ pc' = "aborted"
    /\ fault' = "alloc_error"
    /\ UNCHANGED <<tyT, tyD, many, mem, handle, heap, deallocCalls,
                   written, copied, obs>>

\* The allocating path.  A store outside the block obtained is undefined
\* behaviour: the byte belongs to whoever owns that memory, so what it holds
\* afterwards is either the byte stored or anything else (Clobbered).
new_alloc_ok ==
    /\ pc = "idle"
    /\ ~is_zero_size(total_size(tyT, tyD, many.len))
    /\ LET layout == Layout_from_size_align(total_size(tyT, tyD, many.len),
                                            new_align(tyT, tyD))
       IN  /\ layout /= LayoutError
           /\ allocCalls' = Append(allocCalls, layout)
           /\ \E raw \in AllocAddrs(layout) :
                LET block == [ptr |-> raw, size |-> layout.size, align |-> layout.align]
                    s1 == SingleStores(raw, tyT)
                    s2 == ManyStores(raw, tyT, tyD, many.len)
                    stored == DOMAIN s1 \cup DOMAIN s2
                    outside == stored \ BlockAddrs(block)
                IN  /\ heap' = heap \cup {block}
                    /\ written' = stored
                    /\ copied' = Append(copied, many.len)
                    /\ \E lost \in SUBSET outside :
                         mem' = [a \in DOMAIN mem \cup BlockAddrs(block) \cup stored |->
                                   IF a \in lost THEN Clobbered
                                   ELSE IF a \in DOMAIN s2 THEN s2[a]
                                   ELSE IF a \in DOMAIN s1 THEN s1[a]
                                   ELSE IF a \in DOMAIN mem THEN mem[a]
                                   ELSE Uninit]
                    /\ handle' = [kind |-> "box", ptr |-> raw,
                                  len |-> from_raw_parts_len(many.len),
                                  T |-> tyT, D |-> tyD]
    /\ pc' = "owned"
    /\ UNCHANGED <<tyT, tyD, many, deallocCalls, fault, obs>>

new == new_zero_size \/ new_layout_error \/ new_alloc_null \/ new_alloc_ok

\* ------------------------------------------------ DynStruct::from_slice
\* DynStruct::<D, D>::from_slice(many): the caller's slice viewed in place.
from_slice_panic ==
    /\ pc = "idle"
    /\ ~values_nonempty(many)
    /\ pc' = "panicked"
    /\ fault' = "empty_values"
    /\ UNCHANGED <<tyT, tyD, many, mem, handle, heap, allocCalls, deallocCalls,
                   written, copied, obs>>

from_slice_ok ==
    /\ pc = "idle"
    /\ values_nonempty(many)
    /\ handle' = [kind |-> "ref", ptr |-> many.ptr, len |-> from_slice_len(many),
                  T |-> tyD, D |-> tyD]
    /\ pc' = "view"
    /\ UNCHANGED <<tyT, tyD, many, mem, heap, allocCalls, deallocCalls,
                   written, copied, fault, obs>>

from_slice == from_slice_panic \/ from_slice_ok

\* ------------------------------------------------- use and release
\* Reading `.single` and `&.many` through the handle.
access ==
    /\ pc \in {"owned", "view"}
    /\ obs = <<>>
    /\ obs' = <<[header |-> ReadSingle(mem, handle), trailing |-> ReadMany(mem, handle)]>>
    /\ UNCHANGED <<pc, tyT, tyD, many, mem, handle, heap, allocCalls, deallocCalls,
                   written, copied, fault>>

\* Dropping the Box<Self>: Layout::for_value of the composite, and dealloc
\* unless that size is zero.
drop ==
    /\ pc = "owned"
    /\ LET size == size_of_val(handle.T, handle.D, handle.len)
           align == align_of_val(handle.T, handle.D)
       IN  IF size /= 0
           THEN /\ deallocCalls' = Append(deallocCalls,
                       [ptr |-> handle.ptr, size |-> size, align |-> align])
                /\ heap' = {b \in heap : b.ptr /= handle.ptr}
           ELSE UNCHANGED <<deallocCalls, heap>>
    /\ handle' = NoHandle
    /\ pc' = "released"
    /\ UNCHANGED <<tyT, tyD, many, mem, allocCalls, written, copied, fault, obs>>

Next == new \/ from_slice \/ access \/ drop

Spec == Init /\ [][Next]_vars

\* ======================================================= properties
\* The caller's arguments, as values.
ArgSingle == SingleBytes(tyT)

ArgMany == [k \in 1..many.len |-> ElemBytes(tyD, k)]

\* The smallest offset >= size(T) that is a multiple of align(D).
TrailingOffset(T, D) ==
    CHOOSE o \in T.size..(T.size + D.align) :
        /\ o % D.align = 0
        /\ \A q \in T.size..(T.size + D.align) : q % D.align = 0 => o <= q

PlannedTotalSize == TrailingOffset(tyT, tyD) + tyD.size * many.len

PlannedAlign == IF tyT.align >= tyD.align THEN tyT.align ELSE tyD.align

\* DynStruct::new has returned a Box (which may have been dropped since).
NewReturned == pc \in {"owned", "released"}

\* DynStruct::new has ended, one way or another.
NewEnded == NewReturned \/ fault \in {"layout_error", "alloc_error"}

\* The block obtained by DynStruct::new, as a set of addresses.
ObtainedAddrs == UNION {BlockAddrs(b) : b \in heap}

\* C1: what is read through the Box returned by DynStruct::new(h, elems) is
\* header == h and trailing == elems, element by element and in order.
C1_RoundTrip ==
    (pc = "owned" /\ obs /= <<>>) =>
        /\ obs[1].header = ArgSingle
        /\ obs[1].trailing = ArgMany

\* C2: the layout passed to the allocator has size
\* trailing_offset + size(D)*n and alignment max(align(T), align(D)).
C2_RequestedLayout ==
    allocCalls /= <<>> =>
        allocCalls[1] = [size |-> PlannedTotalSize, align |-> PlannedAlign]

\* C3: every byte stored by the two copies of DynStruct::new lies inside the
\* block just obtained, and the caller's slice is left as it was.
C3_WritesInsideBlock ==
    pc = "owned" =>
        /\ written \subseteq ObtainedAddrs
        /\ \A a \in DOMAIN SliceMem(tyD, many.ptr, many.len) :
              mem[a] = SliceMem(tyD, many.ptr, many.len)[a]

\* C4: on both paths of DynStruct::new the offset of the trailing sequence is
\* a multiple of align(D) and the address in the Box returned is a multiple of
\* max(align(T), align(D)).
C4_Aligned ==
    pc = "owned" =>
        /\ offset_of_many(tyT, tyD) % tyD.align = 0
        /\ (allocCalls /= <<>> =>
               (many_ptr(handle.ptr, tyT, tyD) - handle.ptr) % tyD.align = 0)
        /\ handle.ptr % PlannedAlign = 0

\* The addresses of element slot k of the trailing sequence of handle h.
SlotAddrs(h, k) ==
    {h.ptr + offset_of_many(h.T, h.D) + (k - 1) * h.D.size + j : j \in 0..(h.D.size - 1)}

\* How many element slots of the trailing region the copies have filled.
SlotsStored(h) ==
    Cardinality({k \in 1..(MaxLen + 1) : SlotAddrs(h, k) \subseteq written})

C6_ViewOfSlice ==
    pc = "view" =>
        /\ handle.kind = "ref"
        /\ handle.ptr = many.ptr
        /\ handle.len = many.len - 1
        /\ ReadSingle(mem, handle) = ElemBytes(tyD, 1)
        /\ ReadMany(mem, handle) = [k \in 1..(many.len - 1) |-> ElemBytes(tyD, k + 1)]
        /\ (obs /= <<>> =>
               /\ obs[1].header = ElemBytes(tyD, 1)
               /\ obs[1].trailing = [k \in 1..(many.len - 1) |-> ElemBytes(tyD, k + 1)])
        /\ {handle.ptr + j : j \in 0..(size_of_val(handle.T, handle.D, handle.len) - 1)}
              = DOMAIN SliceMem(tyD, many.ptr, many.len)
        /\ mem = SliceMem(tyD, many.ptr, many.len)
        /\ allocCalls = <<>> /\ heap = {} /\ written = {}

C6_Witness == pc = "view" /\ many.len = 3 /\ tyD.size > 0 /\ obs /= <<>>

\* C7: from_slice on an empty slice panics and never returns a view.
C7_EmptyFaults ==
    /\ (many.len = 0 => pc /= "view" /\ handle.kind /= "ref")
    /\ (fault = "empty_values" => many.len = 0 /\ pc = "panicked" /\ handle = NoHandle)
    /\ ((pc = "idle" /\ many.len = 0) =>
           ENABLED from_slice_panic /\ ~ENABLED from_slice_ok)

C7_Witness == fault = "empty_values" /\ pc = "panicked"

\* The size requested, rounded up to the alignment, does not exceed
\* isize::MAX (what Layout::from_size_align asks of its arguments).
RequestFits ==
    \E r \in 0..ISIZE_MAX :
        /\ r % PlannedAlign = 0
        /\ r >= tyT.size + tyD.size * many.len

\* C8 as stated: DynStruct::new calls the allocator if and only if the planned
\* total_size is > 0; when it is 0 the Box has length n and no call is made;
\* no call asks for zero bytes.
C8_Original ==
    NewEnded =>
        /\ (allocCalls /= <<>>) <=> (PlannedTotalSize > 0)
        /\ (PlannedTotalSize = 0 =>
               /\ allocCalls = <<>>
               /\ NewReturned
               /\ (pc = "owned" => handle.len = many.len))
        /\ \A i \in 1..Len(allocCalls) : allocCalls[i].size /= 0

\* C8 amended: DynStruct::new calls the allocator if and only if the planned
\* total_size is > 0 and the requested size, rounded up to the alignment,
\* does not exceed isize::MAX; the rest as stated.
C8_ZeroSizeRouting ==
    NewEnded =>
        /\ (allocCalls /= <<>>) <=> (PlannedTotalSize > 0 /\ RequestFits)
        /\ (PlannedTotalSize = 0 =>
               /\ allocCalls = <<>>
               /\ NewReturned
               /\ (pc = "owned" => handle.len = many.len))
        /\ \A i \in 1..Len(allocCalls) : allocCalls[i].size /= 0

C8_Witness ==
    pc = "owned" /\ allocCalls = <<>> /\ heap = {} /\ tyD.size = 0 /\ many.len = 2

\* C9 as stated: DynStruct::new ends either in the fatal allocation failure
\* (nothing stored, no Box) or by returning a Box; nothing else.
C9_Original ==
    NewEnded =>
        \/ /\ fault = "alloc_error"
           /\ heap = {} /\ written = {} /\ handle = NoHandle
        \/ NewReturned

\* C9 amended: DynStruct::new ends in the fatal allocation failure (nothing
\* stored, no Box), or in a panic exactly when the requested size, rounded up
\* to the alignment, exceeds isize::MAX (no allocator call, nothing stored, no
\* Box), or by returning a Box; when the size fits, returning is possible and
\* the panic is not.
C9_OnlyAllocOrLayoutFailure ==
    /\ NewEnded =>
          \/ /\ fault = "alloc_error"
             /\ pc = "aborted"
             /\ allocCalls /= <<>> /\ heap = {} /\ written = {} /\ handle = NoHandle
             /\ mem = SliceMem(tyD, many.ptr, many.len)
          \/ /\ fault = "layout_error"
             /\ pc = "panicked"
             /\ ~RequestFits
             /\ allocCalls = <<>> /\ heap = {} /\ written = {} /\ handle = NoHandle
          \/ /\ fault = "none"
             /\ NewReturned
             /\ RequestFits
    /\ (pc = "idle" /\ RequestFits) =>
          /\ ENABLED (new_zero_size \/ new_alloc_ok)
          /\ ~ENABLED new_layout_error
    /\ (pc = "idle" /\ ~RequestFits) =>
          /\ ENABLED new_layout_error
          /\ ~ENABLED (new_zero_size \/ new_alloc_ok \/ new_alloc_null)

C9_Witness == fault = "layout_error" /\ pc = "panicked" /\ allocCalls = <<>>

\* C10: the (size, alignment) DynStruct::new obtains the block with is the
\* (size, alignment) the Box releases it with, the size of the composite
\* value; a Box of the zero-size path releases nothing; the block is released
\* once.
C10_AllocReleaseConsistent ==
    pc = "released" =>
        /\ heap = {}
        /\ Len(deallocCalls) = Len(allocCalls)
        /\ \A i \in 1..Len(deallocCalls) :
              /\ deallocCalls[i].size = allocCalls[i].size
              /\ deallocCalls[i].align = allocCalls[i].align

====
